---- MODULE Spec2Model ----
(***************************************************************************)
(* Model of weather.py: two fetchers (get_weather, get_alerts) that each   *)
(* issue one HTTP GET against weatherapi.com and print fields of the JSON  *)
(* reply, and the module-level code that calls them one after the other.   *)
(*                                                                         *)
(* One action per source statement; the label in pc is the source line     *)
(* ("w26" = line 26 of get_weather, "a54" = line 54 of get_alerts).        *)
(* The network is a stub: a fixed outcome per URL (a response, or a        *)
(* transport exception raised by requests.get).                            *)
(***************************************************************************)
EXTENDS Integers, Sequences, FiniteSets, TLC

(* ------------------------------ bounds --------------------------------- *)
\* most fetcher calls a caller makes
MaxCalls == 3
\* longest alerts.alert list a stubbed reply carries
MaxAlerts == 2

(* --------------------------- JSON values ------------------------------- *)
\* A decoded JSON value is tagged with its Python type: "s" str, "n" number,
\* "o" dict (sequence of <<key, value>> pairs, in document order),
\* "a" list.
JStr(s) == [k |-> "s", v |-> s]
JNum(s) == [k |-> "n", v |-> s]
JObj(pairs) == [k |-> "o", v |-> pairs]
JArr(items) == [k |-> "a", v |-> items]
\* Python None, for a local that is not bound
None == [k |-> "none", v |-> ""]

\* key in d, for a dict d
HasKey(d, key) == d.k = "o" /\ \E i \in 1..Len(d.v) : d.v[i][1] = key

\* d[key], defined when SubscriptExc(d, key) = ""
Subscript(d, key) == d.v[CHOOSE i \in 1..Len(d.v) : d.v[i][1] = key][2]

\* the exception d[key] raises for a string key, "" when it raises none
SubscriptExc(d, key) ==
  IF d.k = "o" THEN (IF HasKey(d, key) THEN "" ELSE "KeyError") ELSE "TypeError"

RECURSIVE PathExc(_, _)
\* the exception d[p1][p2]... raises, evaluated left to right
PathExc(d, path) ==
  IF path = <<>> THEN ""
  ELSE IF SubscriptExc(d, Head(path)) # "" THEN SubscriptExc(d, Head(path))
  ELSE PathExc(Subscript(d, Head(path)), Tail(path))

RECURSIVE PathGet(_, _)
\* d[p1][p2]..., defined when PathExc(d, path) = ""
PathGet(d, path) ==
  IF path = <<>> THEN d ELSE PathGet(Subscript(d, Head(path)), Tail(path))

RECURSIVE Repr(_)
RECURSIVE ReprPairs(_)
RECURSIVE ReprItems(_)
\* repr() of a decoded value, as print shows it inside a dict or list
Repr(x) ==
  CASE x.k = "s" -> "'" \o x.v \o "'"
    [] x.k = "n" -> x.v
    [] x.k = "o" -> "{" \o ReprPairs(x.v) \o "}"
    [] x.k = "a" -> "[" \o ReprItems(x.v) \o "]"
    [] OTHER -> "None"
ReprPairs(ps) ==
  IF ps = <<>> THEN ""
  ELSE "'" \o ps[1][1] \o "': " \o Repr(ps[1][2])
       \o (IF Len(ps) > 1 THEN ", " ELSE "") \o ReprPairs(Tail(ps))
ReprItems(xs) ==
  IF xs = <<>> THEN ""
  ELSE Repr(xs[1]) \o (IF Len(xs) > 1 THEN ", " ELSE "") \o ReprItems(Tail(xs))

\* str() of a decoded value: what "{x}" in an f-string and print(x) show
Format(x) == IF x.k = "s" THEN x.v ELSE Repr(x)

RECURSIVE Dump(_)
RECURSIVE DumpPairs(_)
RECURSIVE DumpItems(_)
\* the JSON text of a value, as the server puts it on the wire
Dump(x) ==
  CASE x.k = "s" -> "\"" \o x.v \o "\""
    [] x.k = "n" -> x.v
    [] x.k = "o" -> "{" \o DumpPairs(x.v) \o "}"
    [] x.k = "a" -> "[" \o DumpItems(x.v) \o "]"
    [] OTHER -> "null"
DumpPairs(ps) ==
  IF ps = <<>> THEN ""
  ELSE "\"" \o ps[1][1] \o "\":" \o Dump(ps[1][2])
       \o (IF Len(ps) > 1 THEN "," ELSE "") \o DumpPairs(Tail(ps))
DumpItems(xs) ==
  IF xs = <<>> THEN ""
  ELSE Dump(xs[1]) \o (IF Len(xs) > 1 THEN "," ELSE "") \o DumpItems(Tail(xs))

(* ------------------------ stubbed documents ---------------------------- *)
LocationParis == <<"location", JObj(<<<<"name", JStr("Paris")>>>>)>>
LocationMerida == <<"location", JObj(<<<<"name", JStr("Merida")>>>>)>>
ConditionClear == <<"condition", JObj(<<<<"text", JStr("Clear")>>>>)>>
CurrentFull == <<"current", JObj(<<<<"temp_c", JNum("21.0")>>, ConditionClear>>)>>

\* current.json documents: complete, with and without air_quality, and one
\* for each expected key left out
WeatherDocs ==
  { JObj(<<LocationParis, CurrentFull>>),
    JObj(<<LocationParis, CurrentFull,
           <<"air_quality", JObj(<<<<"index", JNum("2")>>>>)>>>>),
    JObj(<<LocationParis, CurrentFull,
           <<"air_quality", JObj(<<<<"pm10", JNum("7.5")>>>>)>>>>),
    JObj(<<CurrentFull>>),
    JObj(<<<<"location", JObj(<<<<"region", JStr("Ile-de-France")>>>>)>>, CurrentFull>>),
    JObj(<<LocationParis>>),
    JObj(<<LocationParis, <<"current", JObj(<<ConditionClear>>)>>>>),
    JObj(<<LocationParis, <<"current", JObj(<<<<"temp_c", JNum("21.0")>>>>)>>>>),
    JObj(<<LocationParis,
           <<"current", JObj(<<<<"temp_c", JNum("21.0")>>,
                               <<"condition", JObj(<<<<"code", JNum("1000")>>>>)>>>>)>>>>) }

AlertPool == <<"Flood", "Wind", "Heat", "Fog">>
AlertEntry(i) == JObj(<<<<"headline", JStr(AlertPool[i])>>>>)
AlertList(n) == JArr([i \in 1..n |-> AlertEntry(i)])

\* alerts.json documents: n alerts for n in 0..MaxAlerts, and one for each
\* expected key left out
AlertsDocs ==
  { JObj(<<LocationMerida, <<"alerts", JObj(<<<<"alert", AlertList(n)>>>>)>>>>)
      : n \in 0..MaxAlerts }
  \cup
  { JObj(<<LocationMerida>>),
    JObj(<<LocationMerida, <<"alerts", JObj(<<>>)>>>>),
    JObj(<<<<"alerts", JObj(<<<<"alert", AlertList(1)>>>>)>>>>),
    JObj(<<<<"location", JObj(<<>>)>>,
           <<"alerts", JObj(<<<<"alert", AlertList(1)>>>>)>>>>) }

Docs == WeatherDocs \cup AlertsDocs

\* a body that is not JSON
NotFoundText == "not found"

\* response.json(): the document whose JSON text the body is; a body that is
\* no document's text raises JSONDecodeError
DocText == { << Dump(d), d >> : d \in Docs }
IsJSON(text) == \E p \in DocText : p[1] = text
Decode(text) == (CHOOSE p \in DocText : p[1] = text)[2]

(* ----------------------------- network --------------------------------- *)
base_current_url == "http://api.weatherapi.com/v1/current.json"
base_alerts_url == "http://api.weatherapi.com/v1/alerts.json"

\* what requests.get does for one URL: raise a transport exception, or
\* deliver a response with a status code and a body text
Delivered(s, t) == [raises |-> "", status_code |-> s, text |-> t]
TransportFailure == [raises |-> "ConnectionError", status_code |-> 0, text |-> ""]

\* a 200 reply with each document or a non-JSON body; a 201 reply with a JSON
\* body and a 404 reply with a non-JSON body; a transport failure
OutcomesOver(docs) ==
  { Delivered(200, t) : t \in { Dump(d) : d \in docs } \cup {NotFoundText} }
  \cup { Delivered(201, Dump(JObj(<<LocationParis, CurrentFull>>))),
         Delivered(404, NotFoundText) }
  \cup { TransportFailure }

Stubs ==
  { (base_current_url :> a) @@ (base_alerts_url :> b) :
      a \in OutcomesOver(WeatherDocs), b \in OutcomesOver(AlertsDocs) }

\* a local that holds no response
NoResponse == [id |-> 0, status_code |-> 0, text |-> ""]
\* a local that holds no parameter dict
NoParams == [key |-> ""]

(* ------------------------------ drivers -------------------------------- *)
Locations == {"Salt lake city", "21.8,-90.8W"}
Fetchers == {"get_weather", "get_alerts"}
CallOf(f, l) == [fn |-> f, location |-> l]

\* faulty variant: the two module-level statements in the other order
MainScript_swapped ==
  << CallOf("get_alerts", "21.8,-90.8W"), CallOf("get_weather", "Salt lake city") >>

\* the module-level statements of weather.py
MainScript ==
  << CallOf("get_weather", "Salt lake city"), CallOf("get_alerts", "21.8,-90.8W") >>

(* ------------------------------- state --------------------------------- *)
VARIABLES
  script,        \* the caller's statements: the fetcher calls to make, in order
  ip,            \* index in script of the statement being executed
  stub,          \* the outcome of a GET, per URL
  pc,            \* "module", a source line of a fetcher, "exit" or "abort"
  exc,           \* the uncaught exception that ended the process, or ""
  location,      \* the running fetcher's argument
  params,        \* its local params
  response,      \* its local response
  weather_data,  \* its local weather_data
  it_items,      \* the sequence the for loop of get_alerts iterates over
  it_pos,        \* how many of them the loop has taken
  stdout,        \* the lines printed so far
  sent,          \* the requests issued so far
  calls          \* one record per fetcher call made so far

vars == << script, ip, stub, pc, exc, location, params, response, weather_data,
           it_items, it_pos, stdout, sent, calls >>

env == << script, stub >>
locals == << location, params, response, weather_data, it_items, it_pos >>

NewCall(f, l) ==
  [fn |-> f, location |-> l, state |-> "running", response |-> NoResponse,
   ret |-> NoResponse, out |-> <<>>, reqs |-> <<>>, decoded |-> 0]

InitRest ==
  /\ stub \in Stubs
  /\ ip = 1
  /\ pc = "module"
  /\ exc = ""
  /\ location = ""
  /\ params = NoParams
  /\ response = NoResponse
  /\ weather_data = None
  /\ it_items = <<>>
  /\ it_pos = 0
  /\ stdout = <<>>
  /\ sent = <<>>
  /\ calls = <<>>

\* the program as it is started
Init == script = MainScript /\ InitRest

\* a caller of the two fetchers that has written no call yet
InitCalls == script = << >> /\ InitRest

(* ----------------------------- statements ------------------------------ *)
cur == Len(calls)

\* print(line)
Output(line) ==
  /\ stdout' = Append(stdout, line)
  /\ calls' = [calls EXCEPT ![cur].out = Append(@, line)]

ResetLocals ==
  /\ location' = ""
  /\ params' = NoParams
  /\ response' = NoResponse
  /\ weather_data' = None
  /\ it_items' = <<>>
  /\ it_pos' = 0

\* faulty variant: the exception is swallowed (try/except: pass) and the
\* fetcher goes on to its return statement
Raise_swallowed(e) ==
  /\ pc' = IF calls[cur].fn = "get_weather" THEN "w46" ELSE "a73"
  /\ UNCHANGED << exc, calls, stdout, sent, ip, locals >>

\* an exception nothing catches: the frame is unwound and the process ends
Raise(e) ==
  /\ pc' = "abort"
  /\ exc' = e
  /\ calls' = [calls EXCEPT ![cur].state = "raised"]
  /\ ResetLocals
  /\ UNCHANGED << stdout, sent, ip >>

\* faulty variant: replies are memoised per URL, so a second call for a URL
\* issues no request
Get_cached(url, next) ==
  LET req == [method |-> "GET", url |-> url, params |-> params]
      o == stub[url]
      hit == \E j \in 1..Len(sent) : sent[j].url = url
  IN /\ sent' = IF hit THEN sent ELSE Append(sent, req)
     /\ IF o.raises # ""
        THEN /\ pc' = "abort"
             /\ exc' = o.raises
             /\ calls' = [calls EXCEPT ![cur].state = "raised",
                                       ![cur].reqs = Append(@, req)]
             /\ ResetLocals
             /\ UNCHANGED << stdout, ip >>
        ELSE LET r == [id |-> Len(sent) + 1, status_code |-> o.status_code,
                       text |-> o.text]
             IN /\ response' = r
                /\ calls' = [calls EXCEPT ![cur].response = r,
                                          ![cur].reqs = IF hit THEN @ ELSE Append(@, req)]
                /\ pc' = next
                /\ UNCHANGED << exc, stdout, ip, location, params, weather_data,
                                it_items, it_pos >>

\* faulty variant: a failed GET is attempted a second time before giving up
Get_retry(url, next) ==
  LET req == [method |-> "GET", url |-> url, params |-> params]
      o == stub[url]
  IN IF o.raises # ""
     THEN /\ sent' = sent \o << req, req >>
          /\ pc' = "abort"
          /\ exc' = o.raises
          /\ calls' = [calls EXCEPT ![cur].state = "raised",
                                    ![cur].reqs = @ \o << req, req >>]
          /\ ResetLocals
          /\ UNCHANGED << stdout, ip >>
     ELSE LET r == [id |-> Len(sent) + 1, status_code |-> o.status_code,
                    text |-> o.text]
          IN /\ sent' = Append(sent, req)
             /\ response' = r
             /\ calls' = [calls EXCEPT ![cur].response = r,
                                       ![cur].reqs = Append(@, req)]
             /\ pc' = next
             /\ UNCHANGED << exc, stdout, ip, location, params, weather_data,
                             it_items, it_pos >>

\* requests.get(url, params=params)
Get(url, next) ==
  LET req == [method |-> "GET", url |-> url, params |-> params]
      o == stub[url]
  IN /\ sent' = Append(sent, req)
     /\ IF o.raises # ""
        THEN /\ pc' = "abort"
             /\ exc' = o.raises
             /\ calls' = [calls EXCEPT ![cur].state = "raised",
                                       ![cur].reqs = Append(@, req)]
             /\ ResetLocals
             /\ UNCHANGED << stdout, ip >>
        ELSE LET r == [id |-> Len(sent) + 1, status_code |-> o.status_code,
                       text |-> o.text]
             IN /\ response' = r
                /\ calls' = [calls EXCEPT ![cur].response = r,
                                          ![cur].reqs = Append(@, req)]
                /\ pc' = next
                /\ UNCHANGED << exc, stdout, ip, location, params, weather_data,
                                it_items, it_pos >>

\* faulty variant: any 2xx status taken for success (response.ok)
StatusIs2xx(r) == r.status_code >= 200 /\ r.status_code < 300

\* if response.status_code == 200: ... else: ...
StatusIs200(r) == r.status_code = 200

Branch(cond, then, else) ==
  /\ pc' = IF cond THEN then ELSE else
  /\ UNCHANGED << exc, stdout, sent, calls, ip, locals >>

\* weather_data = response.json()
ParseJson(next) ==
  IF IsJSON(response.text)
  THEN /\ weather_data' = Decode(response.text)
       /\ calls' = [calls EXCEPT ![cur].decoded = @ + 1]
       /\ pc' = next
       /\ UNCHANGED << exc, stdout, sent, ip, location, params, response,
                       it_items, it_pos >>
  ELSE /\ pc' = "abort"
       /\ exc' = "JSONDecodeError"
       /\ calls' = [calls EXCEPT ![cur].state = "raised", ![cur].decoded = @ + 1]
       /\ ResetLocals
       /\ UNCHANGED << stdout, sent, ip >>

\* a print whose argument is looked up along path in weather_data
FieldLine(prefix, path, suffix) ==
  prefix \o Format(PathGet(weather_data, path)) \o suffix

\* faulty variant: the label is printed before the value is looked up
OutputField_label_first(prefix, path, suffix, next) ==
  IF PathExc(weather_data, path) # ""
  THEN /\ stdout' = Append(stdout, prefix)
       /\ calls' = [calls EXCEPT ![cur].out = Append(@, prefix), ![cur].state = "raised"]
       /\ pc' = "abort"
       /\ exc' = PathExc(weather_data, path)
       /\ ResetLocals
       /\ UNCHANGED << sent, ip >>
  ELSE /\ Output(FieldLine(prefix, path, suffix))
       /\ pc' = next
       /\ UNCHANGED << exc, sent, ip, locals >>

OutputField(prefix, path, suffix, next) ==
  IF PathExc(weather_data, path) # ""
  THEN Raise(PathExc(weather_data, path))
  ELSE /\ Output(FieldLine(prefix, path, suffix))
       /\ pc' = next
       /\ UNCHANGED << exc, sent, ip, locals >>

\* a print that looks nothing up
OutputLine(line, next) ==
  /\ Output(line)
  /\ pc' = next
  /\ UNCHANGED << exc, sent, ip, locals >>

\* return response
Return ==
  /\ calls' = [calls EXCEPT ![cur].state = "returned", ![cur].ret = response]
  /\ ResetLocals
  /\ ip' = ip + 1
  /\ pc' = "module"
  /\ UNCHANGED << exc, stdout, sent >>

(* ---------------------------- get_weather ------------------------------ *)
\* faulty variant: the air-quality flag is left out
WeatherParams_no_aqi(loc) == [key |-> "7f84c16adc1847168ef230955240710", q |-> loc]

WeatherParams(loc) ==
  [key |-> "7f84c16adc1847168ef230955240710", q |-> loc, aqi |-> "yes"]

JsonLine(data) == "JSON: " \o Format(data)
ErrorLine(r) == "Error: " \o ToString(r.status_code)

\* get_weather('...') at module level
call_get_weather ==
  /\ pc = "module"
  /\ ip <= Len(script)
  /\ script[ip].fn = "get_weather"
  /\ location' = script[ip].location
  /\ calls' = Append(calls, NewCall("get_weather", script[ip].location))
  /\ pc' = "w20"
  /\ UNCHANGED << env, ip, exc, params, response, weather_data, it_items, it_pos,
                  stdout, sent >>

get_weather_20 ==
  /\ pc = "w20"
  /\ params' = WeatherParams(location)
  /\ pc' = "w26"
  /\ UNCHANGED << env, ip, exc, location, response, weather_data, it_items, it_pos,
                  stdout, sent, calls >>

get_weather_26 == pc = "w26" /\ Get(base_current_url, "w29") /\ UNCHANGED env

get_weather_29 ==
  pc = "w29" /\ Branch(StatusIs200(response), "w31", "w43") /\ UNCHANGED env

get_weather_31 == pc = "w31" /\ ParseJson("w32") /\ UNCHANGED env

get_weather_32 ==
  pc = "w32" /\ OutputLine(JsonLine(weather_data), "w35") /\ UNCHANGED env

get_weather_35 ==
  /\ pc = "w35"
  /\ OutputField("Location: ", <<"location", "name">>, "", "w36")
  /\ UNCHANGED env

get_weather_36 ==
  /\ pc = "w36"
  /\ OutputField("Temperature: ", <<"current", "temp_c">>, "°C", "w37")
  /\ UNCHANGED env

get_weather_37 ==
  /\ pc = "w37"
  /\ OutputField("Condition: ", <<"current", "condition", "text">>, "", "w39")
  /\ UNCHANGED env

get_weather_39 ==
  pc = "w39" /\ Branch(HasKey(weather_data, "air_quality"), "w40", "w46") /\ UNCHANGED env

\* faulty variant: the ['index'] subscript is forgotten
get_weather_40_whole_dict ==
  /\ pc = "w40"
  /\ OutputField("Air Quality Index: ", <<"air_quality">>, "", "w46")
  /\ UNCHANGED env

get_weather_40 ==
  /\ pc = "w40"
  /\ OutputField("Air Quality Index: ", <<"air_quality", "index">>, "", "w46")
  /\ UNCHANGED env

get_weather_43 == pc = "w43" /\ OutputLine(ErrorLine(response), "w44") /\ UNCHANGED env

get_weather_44 == pc = "w44" /\ OutputLine(response.text, "w46") /\ UNCHANGED env

get_weather_46 == pc = "w46" /\ Return /\ UNCHANGED env

(* ----------------------------- get_alerts ------------------------------ *)
\* faulty variant: the parameters of get_weather copied, aqi included
AlertsParams_with_aqi(loc) ==
  [key |-> "7f84c16adc1847168ef230955240710", q |-> loc, aqi |-> "yes"]

AlertsParams(loc) == [key |-> "7f84c16adc1847168ef230955240710", q |-> loc]

\* print(f"Alert: ", alert): two arguments, separated by a space
AlertLine(alert) == "Alert: " \o " " \o Format(alert)

\* faulty variant: the entries are taken last to first
IterItems_reversed(x) ==
  IF x.k = "a" THEN [i \in 1..Len(x.v) |-> x.v[Len(x.v) + 1 - i]]
  ELSE [i \in 1..Len(x.v) |-> JStr(x.v[Len(x.v) + 1 - i][1])]

\* the items a for loop takes from x: the elements of a list, the keys of a dict
IterItems(x) == IF x.k = "a" THEN x.v ELSE [i \in 1..Len(x.v) |-> JStr(x.v[i][1])]
\* iter(x) raises TypeError for a number (a str is iterable; the stubbed
\* documents carry none in this place)
IterExc(x) == IF x.k \in {"a", "o"} THEN "" ELSE "TypeError"

\* get_alerts('...') at module level
call_get_alerts ==
  /\ pc = "module"
  /\ ip <= Len(script)
  /\ script[ip].fn = "get_alerts"
  /\ location' = script[ip].location
  /\ calls' = Append(calls, NewCall("get_alerts", script[ip].location))
  /\ pc' = "a49"
  /\ UNCHANGED << env, ip, exc, params, response, weather_data, it_items, it_pos,
                  stdout, sent >>

get_alerts_49 ==
  /\ pc = "a49"
  /\ params' = AlertsParams(location)
  /\ pc' = "a54"
  /\ UNCHANGED << env, ip, exc, location, response, weather_data, it_items, it_pos,
                  stdout, sent, calls >>

get_alerts_54 == pc = "a54" /\ Get(base_alerts_url, "a57") /\ UNCHANGED env

get_alerts_57 ==
  pc = "a57" /\ Branch(StatusIs200(response), "a59", "a70") /\ UNCHANGED env

get_alerts_59 == pc = "a59" /\ ParseJson("a60") /\ UNCHANGED env

get_alerts_60 ==
  pc = "a60" /\ OutputLine(JsonLine(weather_data), "a63") /\ UNCHANGED env

get_alerts_63 ==
  /\ pc = "a63"
  /\ OutputField("Location: ", <<"location", "name">>, "", "a65")
  /\ UNCHANGED env

\* for alert in weather_data['alerts']['alert']: the iterable is evaluated once
get_alerts_65 ==
  /\ pc = "a65"
  /\ LET path == <<"alerts", "alert">> IN
     IF PathExc(weather_data, path) # "" THEN Raise(PathExc(weather_data, path))
     ELSE IF IterExc(PathGet(weather_data, path)) # ""
     THEN Raise(IterExc(PathGet(weather_data, path)))
     ELSE /\ it_items' = IterItems(PathGet(weather_data, path))
          /\ it_pos' = 0
          /\ pc' = "a65n"
          /\ UNCHANGED << exc, stdout, sent, calls, ip, location, params, response,
                          weather_data >>
  /\ UNCHANGED env

\* the loop takes the next item, or ends
get_alerts_65_next ==
  /\ pc = "a65n"
  /\ IF it_pos < Len(it_items)
     THEN it_pos' = it_pos + 1 /\ pc' = "a66"
     ELSE it_pos' = it_pos /\ pc' = "a73"
  /\ UNCHANGED << env, exc, stdout, sent, calls, ip, location, params, response,
                  weather_data, it_items >>

get_alerts_66 ==
  pc = "a66" /\ OutputLine(AlertLine(it_items[it_pos]), "a65n") /\ UNCHANGED env

get_alerts_70 == pc = "a70" /\ OutputLine(ErrorLine(response), "a71") /\ UNCHANGED env

get_alerts_71 == pc = "a71" /\ OutputLine(response.text, "a73") /\ UNCHANGED env

get_alerts_73 == pc = "a73" /\ Return /\ UNCHANGED env

(* ------------------------------ program -------------------------------- *)
\* the caller has no statement left: the process ends normally
module_end ==
  /\ pc = "module"
  /\ ip > Len(script)
  /\ pc' = "exit"
  /\ UNCHANGED << env, ip, exc, locals, stdout, sent, calls >>

Next ==
  \/ call_get_weather
  \/ get_weather_20
  \/ get_weather_26
  \/ get_weather_29
  \/ get_weather_31
  \/ get_weather_32
  \/ get_weather_35
  \/ get_weather_36
  \/ get_weather_37
  \/ get_weather_39
  \/ get_weather_40
  \/ get_weather_43
  \/ get_weather_44
  \/ get_weather_46
  \/ call_get_alerts
  \/ get_alerts_49
  \/ get_alerts_54
  \/ get_alerts_57
  \/ get_alerts_59
  \/ get_alerts_60
  \/ get_alerts_63
  \/ get_alerts_65
  \/ get_alerts_65_next
  \/ get_alerts_66
  \/ get_alerts_70
  \/ get_alerts_71
  \/ get_alerts_73
  \/ module_end

\* weather.py run as a program
Spec == Init /\ [][Next]_vars

\* any caller: where weather.py has its two call statements, a caller has
\* any call of either fetcher with any location, up to MaxCalls of them
caller_adds_call ==
  /\ pc = "module"
  /\ ip = Len(script) + 1
  /\ Len(script) < MaxCalls
  /\ \E f \in Fetchers, l \in Locations : script' = Append(script, CallOf(f, l))
  /\ UNCHANGED << stub, ip, pc, exc, locals, stdout, sent, calls >>

NextCalls == caller_adds_call \/ Next

\* the two fetchers under any caller that makes up to MaxCalls calls
SpecCalls == InitCalls /\ [][NextCalls]_vars

TypeOK ==
  /\ pc \in {"module", "exit", "abort", "w20", "w26", "w29", "w31", "w32", "w35",
             "w36", "w37", "w39", "w40", "w43", "w44", "w46", "a49", "a54", "a57",
             "a59", "a60", "a63", "a65", "a65n", "a66", "a70", "a71", "a73"}
  /\ ip \in 1..(Len(script) + 1)
  /\ Len(calls) <= Len(script)

(* ------------------------ vocabulary of the claims ---------------------- *)
IsPrefix(s, t) == Len(s) <= Len(t) /\ SubSeq(t, 1, Len(s)) = s
CallIds == 1..Len(calls)
Finished(c) == calls[c].state \in {"returned", "raised"}
GotResponse(c) == calls[c].response.id # 0
Got200(c) == GotResponse(c) /\ calls[c].response.status_code = 200
GotDoc(c) == Got200(c) /\ IsJSON(calls[c].response.text)
DocOf(c) == Decode(calls[c].response.text)
HasPath(d, path) == PathExc(d, path) = ""
UrlOf(f) == IF f = "get_weather" THEN base_current_url ELSE base_alerts_url

NamePath == <<"location", "name">>
TempPath == <<"current", "temp_c">>
TextPath == <<"current", "condition", "text">>
IndexPath == <<"air_quality", "index">>
AlertPath == <<"alerts", "alert">>

CoreFields(d) == HasPath(d, NamePath) /\ HasPath(d, TempPath) /\ HasPath(d, TextPath)
CoreLines(d) ==
  << "JSON: " \o Format(d),
     "Location: " \o Format(PathGet(d, NamePath)),
     "Temperature: " \o Format(PathGet(d, TempPath)) \o "°C",
     "Condition: " \o Format(PathGet(d, TextPath)) >>
IndexLine(d) == "Air Quality Index: " \o Format(PathGet(d, IndexPath))

\* a 200 document lacks a key the fetcher looks up
LacksWeatherKey(d) ==
  ~CoreFields(d) \/ (HasKey(d, "air_quality") /\ ~HasPath(d, IndexPath))
LacksAlertsKey(d) == ~HasPath(d, NamePath) \/ ~HasPath(d, AlertPath)
LacksKey(c) ==
  /\ GotDoc(c)
  /\ IF calls[c].fn = "get_weather" THEN LacksWeatherKey(DocOf(c))
     ELSE LacksAlertsKey(DocOf(c))

(* -------------------------------- C1 ----------------------------------- *)
\* C1: one call of get_weather issues exactly one GET, to the
\* current-conditions URL, with parameters exactly {key, q: the location
\* passed in, aqi: "yes"}, whatever the status of the reply; never a second.
C1_WeatherIssuesOneGet ==
  \A c \in CallIds : calls[c].fn = "get_weather" =>
    /\ Len(calls[c].reqs) <= 1
    /\ (Finished(c) \/ GotResponse(c)) => Len(calls[c].reqs) = 1
    /\ \A i \in 1..Len(calls[c].reqs) :
         /\ calls[c].reqs[i].method = "GET"
         /\ calls[c].reqs[i].url = "http://api.weatherapi.com/v1/current.json"
         /\ DOMAIN calls[c].reqs[i].params = {"key", "q", "aqi"}
         /\ calls[c].reqs[i].params.key = "7f84c16adc1847168ef230955240710"
         /\ calls[c].reqs[i].params.q = script[c].location
         /\ calls[c].reqs[i].params.aqi = "yes"
         /\ \E j \in 1..Len(sent) : sent[j] = calls[c].reqs[i]
    /\ Len(sent) <= Len(calls)

C1_Witness ==
  \E c, d \in CallIds :
    /\ calls[c].fn = "get_weather" /\ calls[d].fn = "get_weather"
    /\ calls[c].state = "returned" /\ calls[d].state = "returned"
    /\ calls[c].response.status_code = 404
    /\ c < d
    /\ calls[c].location # calls[d].location
    /\ Len(calls[c].reqs) = 1 /\ Len(calls[d].reqs) = 1

(* -------------------------------- C2 ----------------------------------- *)
\* C2: one call of get_alerts issues exactly one GET, to the alerts URL,
\* with parameters exactly {key, q: the location passed in} and no aqi,
\* whatever the status of the reply.
C2_AlertsIssuesOneGet ==
  \A c \in CallIds : calls[c].fn = "get_alerts" =>
    /\ Len(calls[c].reqs) <= 1
    /\ (Finished(c) \/ GotResponse(c)) => Len(calls[c].reqs) = 1
    /\ \A i \in 1..Len(calls[c].reqs) :
         /\ calls[c].reqs[i].method = "GET"
         /\ calls[c].reqs[i].url = "http://api.weatherapi.com/v1/alerts.json"
         /\ DOMAIN calls[c].reqs[i].params = {"key", "q"}
         /\ calls[c].reqs[i].params.key = "7f84c16adc1847168ef230955240710"
         /\ calls[c].reqs[i].params.q = script[c].location
         /\ \E j \in 1..Len(sent) : sent[j] = calls[c].reqs[i]
    /\ Len(sent) <= Len(calls)

C2_Witness ==
  \E c, d \in CallIds :
    /\ calls[c].fn = "get_alerts" /\ calls[d].fn = "get_alerts"
    /\ calls[c].state = "returned" /\ calls[d].state = "returned"
    /\ calls[c].response.status_code = 201
    /\ c < d
    /\ calls[c].location # calls[d].location
    /\ Len(calls[c].reqs) = 1 /\ Len(calls[d].reqs) = 1

(* -------------------------------- C3 ----------------------------------- *)
\* C3: for either fetcher and every reply whose status is not 200, the
\* fetcher prints exactly the status code and then the raw body text, never
\* decodes the body, prints no derived line, raises nothing and returns the
\* response it received.
C3_Non200PrintsStatusAndBody ==
  \A c \in CallIds : (GotResponse(c) /\ calls[c].response.status_code # 200) =>
    /\ calls[c].decoded = 0
    /\ calls[c].state # "raised"
    /\ IsPrefix(calls[c].out,
                << "Error: " \o ToString(calls[c].response.status_code),
                   calls[c].response.text >>)
    /\ calls[c].state = "returned" =>
         /\ Len(calls[c].out) = 2
         /\ calls[c].ret = calls[c].response
         /\ calls[c].ret.text = stub[UrlOf(calls[c].fn)].text

C3_Witness ==
  \E c, d \in CallIds :
    /\ calls[c].fn = "get_weather" /\ calls[d].fn = "get_alerts"
    /\ calls[c].state = "returned" /\ calls[d].state = "returned"
    /\ calls[c].out = << "Error: 404", "not found" >>
    /\ calls[d].response.status_code = 201
    /\ IsJSON(calls[d].response.text)
    /\ Len(calls[d].out) = 2

(* -------------------------------- C4 ----------------------------------- *)
\* C4 as stated: for a 200 reply to get_weather whose document has
\* location.name, current.temp_c and current.condition.text, the output is
\* the raw structure, the location, temperature and condition lines, and an
\* Air Quality Index line after them if and only if the document has a
\* top-level air_quality key.
C4_AirQualityLineIffKey ==
  \A c \in CallIds :
    (calls[c].fn = "get_weather" /\ GotDoc(c) /\ Finished(c) /\ CoreFields(DocOf(c))) =>
      /\ SubSeq(calls[c].out, 1, 4) = CoreLines(DocOf(c))
      /\ Len(calls[c].out) \in {4, 5}
      /\ Len(calls[c].out) = 5 <=> HasKey(DocOf(c), "air_quality")

\* C4 as amended: the Air Quality Index line is printed if and only if the
\* document has a top-level air_quality key that has an index field; with
\* air_quality absent, or present without index, no such line is printed.
C4_AirQualityLineIffIndex ==
  \A c \in CallIds :
    (calls[c].fn = "get_weather" /\ GotDoc(c) /\ CoreFields(DocOf(c))) =>
      LET expected == CoreLines(DocOf(c)) \o
                        (IF HasPath(DocOf(c), IndexPath) THEN << IndexLine(DocOf(c)) >>
                         ELSE << >>)
      IN /\ IsPrefix(calls[c].out, expected)
         /\ Finished(c) => calls[c].out = expected

C4_Witness ==
  \E c \in CallIds :
    /\ calls[c].fn = "get_weather" /\ calls[c].state = "returned"
    /\ calls[c].out = << "JSON: {'location': {'name': 'Paris'}, 'current': {'temp_c': 21.0, 'condition': {'text': 'Clear'}}, 'air_quality': {'index': 2}}",
                         "Location: Paris", "Temperature: 21.0°C", "Condition: Clear",
                         "Air Quality Index: 2" >>

C4_WitnessNoKey ==
  \E c \in CallIds :
    /\ calls[c].fn = "get_weather" /\ calls[c].state = "returned"
    /\ GotDoc(c) /\ ~HasKey(DocOf(c), "air_quality")
    /\ calls[c].out = << "JSON: {'location': {'name': 'Paris'}, 'current': {'temp_c': 21.0, 'condition': {'text': 'Clear'}}}",
                         "Location: Paris", "Temperature: 21.0°C", "Condition: Clear" >>

(* -------------------------------- C5 ----------------------------------- *)
\* C5: for a 200 reply to get_alerts whose document has location.name and a
\* list alerts.alert of n entries, the output is the raw structure, the
\* location line once, then n alert lines, the i-th carrying the i-th entry,
\* in the order of the list; with n = 0 no alert line, and the call returns.
C5_OneLinePerAlertInOrder ==
  \A c \in CallIds :
    (calls[c].fn = "get_alerts" /\ GotDoc(c) /\ HasPath(DocOf(c), NamePath)
       /\ HasPath(DocOf(c), AlertPath) /\ PathGet(DocOf(c), AlertPath).k = "a") =>
      LET entries == PathGet(DocOf(c), AlertPath).v
          expected == << "JSON: " \o Format(DocOf(c)),
                         "Location: " \o Format(PathGet(DocOf(c), NamePath)) >>
                      \o [i \in 1..Len(entries) |-> "Alert:  " \o Format(entries[i])]
      IN /\ IsPrefix(calls[c].out, expected)
         /\ calls[c].state # "raised"
         /\ calls[c].state = "returned" =>
              /\ calls[c].out = expected
              /\ Len(calls[c].out) = 2 + Len(entries)
              /\ calls[c].ret = calls[c].response

C5_Witness ==
  \E c \in CallIds :
    /\ calls[c].fn = "get_alerts" /\ calls[c].state = "returned"
    /\ Len(calls[c].out) = 4
    /\ calls[c].out[2] = "Location: Merida"
    /\ calls[c].out[3] = "Alert:  {'headline': 'Flood'}"
    /\ calls[c].out[4] = "Alert:  {'headline': 'Wind'}"

C5_WitnessEmpty ==
  \E c \in CallIds :
    /\ calls[c].fn = "get_alerts" /\ calls[c].state = "returned"
    /\ GotDoc(c)
    /\ calls[c].out = << "JSON: {'location': {'name': 'Merida'}, 'alerts': {'alert': []}}",
                         "Location: Merida" >>

(* -------------------------------- C6 ----------------------------------- *)
\* C6: under a fixed stub, two calls of the same fetcher with the same
\* location print the same lines and issue the same request, whatever was
\* called in between, and a call starts from no state an earlier call left.
C6_SameCallSameOutput ==
  /\ \A c, d \in CallIds :
       (Finished(c) /\ Finished(d) /\ calls[c].fn = calls[d].fn
          /\ calls[c].location = calls[d].location) =>
         /\ calls[c].out = calls[d].out
         /\ calls[c].reqs = calls[d].reqs
         /\ calls[c].state = calls[d].state
         /\ calls[c].decoded = calls[d].decoded
         /\ calls[c].ret.status_code = calls[d].ret.status_code
         /\ calls[c].ret.text = calls[d].ret.text
  /\ pc = "module" =>
       /\ params = NoParams /\ response = NoResponse /\ weather_data = None
       /\ it_items = << >> /\ it_pos = 0

C6_Witness ==
  /\ Len(calls) = 3
  /\ calls[1].fn = "get_alerts" /\ calls[2].fn = "get_weather" /\ calls[3].fn = "get_alerts"
  /\ calls[1].location = calls[3].location
  /\ \A c \in 1..3 : calls[c].state = "returned"
  /\ Len(calls[1].out) = 4 /\ Len(calls[2].out) = 5
  /\ calls[3].out = calls[1].out

(* -------------------------------- C7 ----------------------------------- *)
OutOf(c) == IF c <= Len(calls) THEN calls[c].out ELSE << >>

\* C7: the program issues the GET of get_weather('Salt lake city') first and
\* the GET of get_alerts('21.8,-90.8W') only after the first call has its
\* response, has printed everything and has returned; no alerts output
\* precedes current-weather output; when both calls return, two requests
\* were issued and the process ends normally.
C7_CallsRunInSequence ==
  /\ Len(sent) <= 2 /\ Len(calls) <= 2
  /\ Len(sent) >= 1 =>
       /\ sent[1].url = "http://api.weatherapi.com/v1/current.json"
       /\ sent[1].params.q = "Salt lake city"
       /\ calls[1].fn = "get_weather"
  /\ Len(calls) = 2 => calls[1].state = "returned" /\ calls[2].fn = "get_alerts"
  /\ Len(sent) = 2 =>
       /\ sent[2].url = "http://api.weatherapi.com/v1/alerts.json"
       /\ sent[2].params.q = "21.8,-90.8W"
       /\ calls[1].state = "returned"
       /\ GotResponse(1)
       /\ IsPrefix(calls[1].out, stdout)
       /\ Len(calls[1].out) >= 2
  /\ stdout = OutOf(1) \o OutOf(2)
  /\ (Len(calls) = 2 /\ calls[2].state = "returned") =>
       /\ Len(sent) = 2
       /\ exc = ""
       /\ pc = "exit" \/ ENABLED module_end
  /\ pc = "exit" =>
       /\ Len(calls) = 2 /\ calls[1].state = "returned" /\ calls[2].state = "returned"
       /\ Len(sent) = 2
       /\ exc = ""

C7_Witness ==
  /\ pc = "exit"
  /\ Len(sent) = 2
  /\ Len(calls[1].out) = 5
  /\ Len(calls[2].out) = 4
  /\ Len(stdout) = 9

(* -------------------------------- C8 ----------------------------------- *)
\* C8: a 200 reply that lacks an expected key is fatal: the fetcher returns
\* no response, the process aborts on the lookup failure, nothing further is
\* printed or requested, and a failure in the current-weather call means
\* the alerts request is never issued.
C8_MissingKeyIsFatal ==
  /\ [](\A c \in CallIds : LacksKey(c) =>
          /\ calls[c].state # "returned"
          /\ calls[c].ret = NoResponse
          /\ calls[c].state = "raised" =>
               /\ pc = "abort"
               /\ exc = "KeyError"
               /\ c = Len(calls)
               /\ Len(sent) = c
               /\ stdout = OutOf(1) \o OutOf(2))
  /\ [][pc = "abort" => (pc' = "abort" /\ stdout' = stdout /\ sent' = sent
                          /\ calls' = calls)]_vars
  /\ [](pc = "exit" => \A c \in CallIds : ~LacksKey(c))

C8_Witness ==
  /\ pc = "abort" /\ exc = "KeyError"
  /\ Len(calls) = 1 /\ calls[1].fn = "get_weather" /\ calls[1].state = "raised"
  /\ LacksKey(1)
  /\ HasKey(DocOf(1), "air_quality")
  /\ Len(sent) = 1
  /\ \A j \in 1..Len(sent) : sent[j].url # "http://api.weatherapi.com/v1/alerts.json"

C8_WitnessAlerts ==
  /\ pc = "abort" /\ exc = "KeyError"
  /\ Len(calls) = 2 /\ calls[2].fn = "get_alerts" /\ calls[2].state = "raised"
  /\ LacksKey(2)
  /\ HasPath(DocOf(2), NamePath)

(* -------------------------------- C9 ----------------------------------- *)
\* C9 as stated: a fetcher that aborts on a missing expected key of a 200
\* reply has printed none of the derived lines for that reply (the raw
\* structure alone).
C9_AbortPrintsNoDerivedLine ==
  \A c \in CallIds : (LacksKey(c) /\ calls[c].state = "raised") =>
    calls[c].out = << "JSON: " \o Format(DocOf(c)) >>

\* the paths a fetcher looks up, in the order of its statements
LookupPaths(f, d) ==
  IF f = "get_weather"
  THEN << NamePath, TempPath, TextPath >>
       \o (IF HasKey(d, "air_quality") THEN << IndexPath >> ELSE << >>)
  ELSE << NamePath, AlertPath >>
LinePrefix(p) ==
  CASE p = NamePath -> "Location: "
    [] p = TempPath -> "Temperature: "
    [] p = TextPath -> "Condition: "
    [] p = IndexPath -> "Air Quality Index: "
    [] OTHER -> "Alert: "
LineSuffix(p) == IF p = TempPath THEN "°C" ELSE ""
\* how many lookups succeed before the first that fails
FoundBefore(f, d) ==
  LET ps == LookupPaths(f, d)
  IN (CHOOSE m \in 1..Len(ps) :
        /\ ~HasPath(d, ps[m])
        /\ \A i \in 1..(m - 1) : HasPath(d, ps[i])) - 1

\* C9 as amended: a fetcher that aborts on a missing expected key has
\* printed the raw structure and the derived line of each field it looks up
\* before the first missing one, in order, and no line for the missing field
\* or for any field after it.
C9_AbortLeavesLinesBeforeMissingKey ==
  \A c \in CallIds : (LacksKey(c) /\ calls[c].state = "raised") =>
    LET d == DocOf(c)
        ps == LookupPaths(calls[c].fn, d)
        m == FoundBefore(calls[c].fn, d)
    IN /\ Len(calls[c].out) = 1 + m
       /\ calls[c].out[1] = "JSON: " \o Format(d)
       /\ \A i \in 1..m :
            calls[c].out[1 + i] =
              LinePrefix(ps[i]) \o Format(PathGet(d, ps[i])) \o LineSuffix(ps[i])

C9_Witness ==
  \E c \in CallIds :
    /\ calls[c].fn = "get_weather" /\ calls[c].state = "raised"
    /\ calls[c].out = << "JSON: {'location': {'name': 'Paris'}, 'current': {'temp_c': 21.0}}",
                         "Location: Paris", "Temperature: 21.0°C" >>

(* -------------------------------- C10 ---------------------------------- *)
\* C10: a transport failure of the GET is not caught: the fetcher prints
\* nothing, returns nothing, makes exactly one request attempt, and the
\* process aborts; after a failure in the current-weather call the alerts
\* request is never issued.
C10_TransportFailureAborts ==
  /\ [](\A c \in CallIds : stub[UrlOf(calls[c].fn)].raises # "" =>
          /\ calls[c].out = << >>
          /\ calls[c].state # "returned"
          /\ calls[c].ret = NoResponse
          /\ ~GotResponse(c)
          /\ Len(calls[c].reqs) <= 1
          /\ Len(calls[c].reqs) = 1 =>
               /\ calls[c].state = "raised"
               /\ pc = "abort"
               /\ exc = "ConnectionError"
               /\ c = Len(calls)
               /\ Len(sent) = c)
  /\ [][pc = "abort" => (pc' = "abort" /\ stdout' = stdout /\ sent' = sent
                          /\ calls' = calls)]_vars
  /\ [](exc = "ConnectionError" => Len(sent) = Len(calls))

C10_Witness ==
  /\ pc = "abort" /\ exc = "ConnectionError"
  /\ Len(calls) = 1 /\ calls[1].fn = "get_weather" /\ calls[1].state = "raised"
  /\ stdout = << >>
  /\ Len(sent) = 1
  /\ sent[1].url = "http://api.weatherapi.com/v1/current.json"

====
